---------------------------- MODULE Spec2Model ----------------------------
(***************************************************************************)
(* Invoice extraction-and-reconciliation pipeline.                         *)
(*                                                                         *)
(* The model covers the relational store (tables Invoice and LineItem),    *)
(* the storage queries of lib/db/queries, the processInvoiceData and       *)
(* saveInvoiceData tools, the GET and PUT /invoices routes and the invoice  *)
(* editor.  Every request is split at its await points; a storage call or  *)
(* an extraction call may throw.                                           *)
(*                                                                         *)
(* Spec            requests handled one after the other, client connected  *)
(* SpecDisconnect  Spec, and the client of a tool's stream may disconnect  *)
(* SpecGet         GET /invoices against stores of up to MaxInvoices rows  *)
(* SpecPut         two PUT /invoices requests interleaved at their awaits  *)
(* SpecProcess     two processInvoiceData executions interleaved likewise  *)
(* SpecRerun       processInvoiceData executed, then executed again        *)
(* SpecEditor      the invoice editor component                            *)
(***************************************************************************)
EXTENDS Integers, Sequences, FiniteSets, TLC

\* ------------------------------------------------------------------ bounds
\* number of requests (tool executions, PUTs, deletions) of one behaviour
MaxOps == 2
\* number of extraction calls (attached files) of one behaviour
MaxFiles == 3
\* number of editor events of one behaviour
MaxEdits == 5
\* number of line items of a draft
MaxItems == 2

\* --------------------------------------------------------- program constants
\* process-invoice-data.ts:133, object.confidence > 0.75 (in hundredths)
Threshold == 75

\* part_006:433, limit = 100
DefaultLimit == 100

\* the request handlers that can be in flight together
Procs == {"p1", "p2"}
\* the handler of the specifications that take one request at a time
Sequential == {"p1"}

NoId == 0
\* ids that no generateUUID call returns and that no row carries
UnknownIds == {99}
Null == [null |-> TRUE]
\* no update request of the editor has ended since the last Save started
NoResponse == "none"

\* ------------------------------------------------------------- input domains
Item(a) == [amount |-> a]

InvoiceData(c, v, n, a, li) ==
  [customerName |-> c, vendorName |-> v, invoiceNumber |-> n, amount |-> a,
   lineItems |-> li]

\* the invoice data of the extraction results and of the saveInvoiceData
\* calls: two with the same key and different content, and one with
\* another key
InvoiceDataSet ==
  { InvoiceData("Bob", "Acme", "INV-1", 100, <<Item(100)>>),
    InvoiceData("Eve", "Acme", "INV-1", 100, <<>>),
    InvoiceData("Bob", "Acme", "INV-2", 100, <<Item(100)>>) }

ExtractResult(d, isInv, conf, why) ==
  [invoiceData |-> d, isInvoice |-> isInv, confidence |-> conf, reasoning |-> why]

\* what generateObject may return for one file (confidence in hundredths)
ExtractObjects ==
  { ExtractResult(d, TRUE, 90, "") : d \in InvoiceDataSet }
  \cup { ExtractResult(InvoiceData("Bob", "Acme", "INV-1", 100, <<Item(100)>>),
                       TRUE, c, "low confidence") : c \in {50, Threshold} }
  \cup { ExtractResult(InvoiceData("Bob", "Acme", "INV-1", 100, <<Item(100)>>),
                       FALSE, 90, "not an invoice") }

VARIABLES
  Invoice,                \* table Invoice, rows in insertion order
  LineItem,               \* table LineItem, rows in insertion order
  nextId,                 \* generateUUID: the next fresh identity
  ops,                    \* requests started so far
  calls,                  \* extraction calls made so far
  handler,                \* the request handler each process runs
  pc,                     \* position of each request handler
  attachedFiles,          \* processInvoiceData: file parts of the latest message
  idx,                    \* processInvoiceData: index of the current loop
  extracted,              \* processInvoiceData: what generateObject returned, per file
  invoiceAttachments,
  nonInvoiceAttachments,
  savedInvoices,
  duplicateInvoices,
  invoiceId,              \* id generated for the invoice being saved
  invoiceData,            \* invoice data being saved
  lineItems,              \* line items being inserted / supplied by a PUT
  body,                   \* PUT: request body
  result,                 \* value returned by the handler
  dataStream,             \* events written with dataStream.writeData
  closed,                 \* the client of the handler's stream has disconnected
  Invoice0,               \* table Invoice when the request started
  LineItem0,              \* table LineItem when the request started
  invoices,               \* editor: the invoices of the table
  editingId,              \* editor: id of the row in edit mode, or none
  editData,               \* editor: the draft of the row in edit mode
  isUpdating,             \* editor: a Save is in flight
  saving,                 \* editor: what the Save in flight closed over
  response,               \* editor: how the update request of the last Save ended
  edits,                  \* editor: events handled so far
  invoicesAtEdit,         \* editor: the invoices of the table when editing started
  messages                \* processInvoiceData: the messages of the conversation

store == <<Invoice, LineItem, nextId>>
locals == <<attachedFiles, idx, extracted, invoiceAttachments,
            nonInvoiceAttachments, savedInvoices, duplicateInvoices,
            invoiceId, invoiceData, lineItems, body>>
vars == <<Invoice, LineItem, nextId, ops, calls, handler, pc, attachedFiles, idx, extracted,
          invoiceAttachments, nonInvoiceAttachments, savedInvoices,
          duplicateInvoices, invoiceId, invoiceData, lineItems, body, result,
          dataStream, Invoice0, LineItem0, closed, invoices, editingId,
          editData, isUpdating, saving, response, edits, invoicesAtEdit,
          messages>>

editor == <<invoices, editingId, editData, isUpdating, saving, response, edits,
           invoicesAtEdit>>

\* ------------------------------------------------------------------ helpers
Range(s) == { s[i] : i \in 1..Len(s) }

Ids(table) == { table[i].id : i \in 1..Len(table) }

\* ------------------------------------------------------------ storage layer
\* new Date(): the clock, read as the number of identities generated so far
Now == nextId

\* a row whose amount column keeps whole thousands only
InvoiceRowRounded(id, d) ==
  [id |-> id, createdAt |-> Now, customerName |-> d.customerName, vendorName |-> d.vendorName,
   invoiceNumber |-> d.invoiceNumber, amount |-> d.amount - (d.amount % 1000),
   status |-> "processed"]

\* an insert that writes the customer and vendor names into each other's column
InvoiceRowSwapped(id, d) ==
  [id |-> id, createdAt |-> Now, customerName |-> d.vendorName, vendorName |-> d.customerName,
   invoiceNumber |-> d.invoiceNumber, amount |-> d.amount,
   status |-> "processed"]

\* db.insert(invoice).values({...}).returning().get()
InvoiceRow(id, d) ==
  [id |-> id, createdAt |-> Now, customerName |-> d.customerName, vendorName |-> d.vendorName,
   invoiceNumber |-> d.invoiceNumber, amount |-> d.amount,
   status |-> "processed"]

\* primary key of Invoice
saveInvoiceOk(id) == id \notin Ids(Invoice)

saveInvoice(id, d) == Append(Invoice, InvoiceRow(id, d))

\* a lookup that compares the vendor names without regard to case
Lower(str) == IF str = "Acme" THEN "acme" ELSE str

findDuplicateInvoiceNoCase(vendorName, invoiceNumber, amount) ==
  LET Match(i) == /\ Lower(Invoice[i].vendorName) = Lower(vendorName)
                  /\ Invoice[i].invoiceNumber = invoiceNumber
                  /\ Invoice[i].amount = amount
      hits == { i \in 1..Len(Invoice) : Match(i) }
  IN  IF hits = {} THEN Null
      ELSE Invoice[CHOOSE i \in hits : \A j \in hits : i <= j]

\* a lookup that compares the invoice number with the vendor column
findDuplicateInvoiceWrongColumn(vendorName, invoiceNumber, amount) ==
  LET Match(i) == /\ Invoice[i].vendorName = vendorName
                  /\ Invoice[i].vendorName = invoiceNumber
                  /\ Invoice[i].amount = amount
      hits == { i \in 1..Len(Invoice) : Match(i) }
  IN  IF hits = {} THEN Null
      ELSE Invoice[CHOOSE i \in hits : \A j \in hits : i <= j]

\* first row whose three key fields equal the arguments, or Null
\* a lookup that passes over the rows that have no line item
findDuplicateInvoiceWithItems(vendorName, invoiceNumber, amount) ==
  LET Match(i) == /\ Invoice[i].vendorName = vendorName
                  /\ Invoice[i].invoiceNumber = invoiceNumber
                  /\ Invoice[i].amount = amount
                  /\ \E k \in 1..Len(LineItem) : LineItem[k].invoiceId = Invoice[i].id
      hits == { i \in 1..Len(Invoice) : Match(i) }
  IN  IF hits = {} THEN Null
      ELSE Invoice[CHOOSE i \in hits : \A j \in hits : i <= j]

findDuplicateInvoice(vendorName, invoiceNumber, amount) ==
  LET Match(i) == /\ Invoice[i].vendorName = vendorName
                  /\ Invoice[i].invoiceNumber = invoiceNumber
                  /\ Invoice[i].amount = amount
      hits == { i \in 1..Len(Invoice) : Match(i) }
  IN  IF hits = {} THEN Null
      ELSE Invoice[CHOOSE i \in hits : \A j \in hits : i <= j]

\* the constraints of LineItem without the foreign key
saveLineItemsOkNoForeignKey(items) ==
  /\ \A i \in 1..Len(items) : items[i].id \notin Ids(LineItem)
  /\ \A i, j \in 1..Len(items) : items[i].id = items[j].id => i = j

\* primary key of LineItem and FOREIGN KEY (invoiceId) REFERENCES Invoice(id)
saveLineItemsOk(items) ==
  /\ \A i \in 1..Len(items) :
        /\ items[i].id \notin Ids(LineItem)
        /\ items[i].invoiceId \in Ids(Invoice)
  /\ \A i, j \in 1..Len(items) : items[i].id = items[j].id => i = j

saveLineItems(items) == LineItem \o items

deleteLineItemsByInvoiceId(id) ==
  LET Keep(r) == r.invoiceId # id IN SelectSeq(LineItem, Keep)

\* DELETE FROM Invoice WHERE id = ?, with ON DELETE cascade on LineItem
deleteInvoiceRows(id) ==
  LET Keep(r) == r.id # id IN SelectSeq(Invoice, Keep)

\* items.map(item => ({...item, id: generateUUID(), invoiceId}))
TagLineItems(items, invId, first) ==
  [i \in 1..Len(items) |->
     [id |-> first + i - 1, invoiceId |-> invId, amount |-> items[i].amount]]

\* ------------------------------------------------------------------- Init
\* no request has started
InitHandlers ==
  /\ ops = 0
  /\ calls = 0
  /\ handler = [p \in Procs |-> ""]
  /\ pc = [p \in Procs |-> "idle"]
  /\ attachedFiles = [p \in Procs |-> <<>>]
  /\ idx = [p \in Procs |-> 0]
  /\ extracted = [p \in Procs |-> <<>>]
  /\ invoiceAttachments = [p \in Procs |-> <<>>]
  /\ nonInvoiceAttachments = [p \in Procs |-> <<>>]
  /\ savedInvoices = [p \in Procs |-> <<>>]
  /\ duplicateInvoices = [p \in Procs |-> <<>>]
  /\ invoiceId = [p \in Procs |-> NoId]
  /\ invoiceData = [p \in Procs |-> Null]
  /\ lineItems = [p \in Procs |-> <<>>]
  /\ body = [p \in Procs |-> Null]
  /\ result = [p \in Procs |-> Null]
  /\ dataStream = [p \in Procs |-> <<>>]
  /\ closed = [p \in Procs |-> FALSE]
  /\ Invoice0 = [p \in Procs |-> <<>>]
  /\ LineItem0 = [p \in Procs |-> <<>>]
  /\ messages = [p \in Procs |-> <<>>]

\* the editor before it is given invoices to show
InitNoEditor ==
  /\ invoices = <<>>
  /\ editingId = NoId
  /\ editData = <<>>
  /\ isUpdating = FALSE
  /\ saving = Null
  /\ response = NoResponse
  /\ edits = 0
  /\ invoicesAtEdit = <<>>

\* the empty database
Init ==
  /\ Invoice = <<>>
  /\ LineItem = <<>>
  /\ nextId = 1
  /\ InitHandlers
  /\ InitNoEditor


\* ------------------------------------------------- processInvoiceData tool
Failure(err) == [success |-> FALSE, error |-> err]

\* execute ends with an exception instead of a return value
Uncaught == [thrown |-> TRUE]

\* the acceptance policy with the threshold itself accepted
AcceptsAtThreshold(object) ==
  /\ object # Null
  /\ object.invoiceData # Null
  /\ object.isInvoice
  /\ object.confidence >= Threshold

\* the acceptance policy without the confidence test
AcceptsAnyConfidence(object) ==
  /\ object # Null
  /\ object.invoiceData # Null
  /\ object.isInvoice

\* the acceptance policy of the classification step
Accepts(object) ==
  /\ object # Null
  /\ object.invoiceData # Null
  /\ object.isInvoice
  /\ object.confidence > Threshold

\* {...invoiceData, id: savedInvoice.id}
SavedEntry(d, id) ==
  [id |-> id, customerName |-> d.customerName, vendorName |-> d.vendorName,
   invoiceNumber |-> d.invoiceNumber, amount |-> d.amount,
   lineItems |-> d.lineItems]

\* the value returned after the save loop, with the counts of the message
Summary(saved, dups, nons) ==
  [success |-> TRUE, error |-> "", invoices |-> saved,
   savedCount |-> Len(saved), duplicateCount |-> Len(dups),
   nonInvoiceCount |-> Len(nons)]

\* a request starts: the handler's locals are fresh
Begin(p, h, at, files, bdy, events, res) ==
  /\ pc[p] \in {"idle", "done"}
  /\ ops < MaxOps
  /\ ops' = ops + 1
  /\ handler' = [handler EXCEPT ![p] = h]
  /\ pc' = [pc EXCEPT ![p] = at]
  /\ attachedFiles' = [attachedFiles EXCEPT ![p] = files]
  /\ idx' = [idx EXCEPT ![p] = 1]
  /\ extracted' = [extracted EXCEPT ![p] = <<>>]
  /\ invoiceAttachments' = [invoiceAttachments EXCEPT ![p] = <<>>]
  /\ nonInvoiceAttachments' = [nonInvoiceAttachments EXCEPT ![p] = <<>>]
  /\ savedInvoices' = [savedInvoices EXCEPT ![p] = <<>>]
  /\ duplicateInvoices' = [duplicateInvoices EXCEPT ![p] = <<>>]
  /\ lineItems' = [lineItems EXCEPT ![p] = <<>>]
  /\ body' = [body EXCEPT ![p] = bdy]
  /\ result' = [result EXCEPT ![p] = res]
  /\ dataStream' = [dataStream EXCEPT ![p] = events]
  /\ UNCHANGED <<closed, editor>>
  /\ Invoice0' = [Invoice0 EXCEPT ![p] = Invoice]
  /\ LineItem0' = [LineItem0 EXCEPT ![p] = LineItem]

\* a message: its role and its content, which is a string or an array of
\* parts
Message(role, array, parts) == [role |-> role, array |-> array, parts |-> parts]

TextPart == [type |-> "text"]

FilePart(name) == [type |-> "file", filename |-> name]

\* the name of a file attached to an earlier message
OldFile == MaxFiles + 1

\* a conversation whose latest user message has n file parts, after a user
\* message with a file part of its own and the assistant's answer to it
Conversation(n) ==
  << Message("user", TRUE, <<TextPart, FilePart(OldFile)>>),
     Message("assistant", FALSE, <<>>),
     Message("user", TRUE, <<TextPart>> \o [i \in 1..n |-> FilePart(i)]) >>

\* the conversations of the tool calls: those above, one whose latest user
\* message has a string as content, and one without a user message
Conversations ==
  { Conversation(n) : n \in 0..MaxFiles }
  \cup { << Message("user", TRUE, <<FilePart(OldFile)>>), Message("user", FALSE, <<>>) >>,
         << Message("assistant", FALSE, <<>>) >> }

\* the names of the file parts of an array of parts
fileNames(parts) ==
  LET IsFile(part) == part.type = "file"
      files == SelectSeq(parts, IsFile)
  IN  [i \in 1..Len(files) |-> files[i].filename]

\* the file parts of every user message
RECURSIVE filesOfAllMessages(_)
filesOfAllMessages(msgs) ==
  IF msgs = <<>> THEN <<>>
  ELSE LET msg == msgs[Len(msgs)]
       IN  filesOfAllMessages(SubSeq(msgs, 1, Len(msgs) - 1))
             \o (IF msg.role = "user" /\ msg.array THEN fileNames(msg.parts) ELSE <<>>)

\* attachedFiles: the file parts of the latest user message, none when
\* there is no user message or its content is not an array
filesOfLatestMessage(msgs) ==
  LET IsUser(msg) == msg.role = "user"
      users == SelectSeq(msgs, IsUser)
  IN  IF users = <<>> THEN <<>>
      ELSE IF ~users[Len(users)].array THEN <<>>
      ELSE fileNames(users[Len(users)].parts)

\* execute, up to the first extraction call: the file parts of the latest
\* user message, or the 'No valid files found' return
ProcessStart(p) ==
  \E msgs \in Conversations :
    LET files == filesOfLatestMessage(msgs)
    IN  /\ Len(files) <= MaxFiles - calls
        /\ calls' = calls + Len(files)
        /\ messages' = [messages EXCEPT ![p] = msgs]
        /\ IF files = <<>>
           THEN Begin(p, "processInvoiceData", "done", <<>>, Null, <<>>,
                      Failure("No valid files found"))
           ELSE Begin(p, "processInvoiceData", "extract", files, Null, <<>>, Null)
        /\ invoiceId' = [invoiceId EXCEPT ![p] = NoId]
        /\ invoiceData' = [invoiceData EXCEPT ![p] = Null]
        /\ UNCHANGED store

\* a catch block that returns the failure without writing the event
ProcessCatchSilent(p) ==
  /\ pc' = [pc EXCEPT ![p] = "done"]
  /\ result' = [result EXCEPT ![p] = Failure("Database error")]
  /\ UNCHANGED dataStream

\* the catch block of execute; writeData throws on the stream of a client
\* that has disconnected, and nothing catches what the catch block throws
ProcessCatch(p) ==
  /\ pc' = [pc EXCEPT ![p] = "done"]
  /\ IF closed[p]
     THEN /\ result' = [result EXCEPT ![p] = Uncaught]
          /\ UNCHANGED dataStream
     ELSE /\ dataStream' = [dataStream EXCEPT ![p] = Append(@, "error")]
          /\ result' = [result EXCEPT ![p] = Failure("Database error")]

\* an extraction loop that goes on to save as soon as a file is accepted
ExtractThenSave(p) ==
  /\ pc[p] = "extract"
  /\ UNCHANGED <<store, ops, calls, handler, attachedFiles, savedInvoices, duplicateInvoices,
                 invoiceId, invoiceData, lineItems, body, Invoice0, LineItem0, closed, editor, messages>>
  /\ \/ /\ ProcessCatch(p)
        /\ UNCHANGED <<idx, extracted, invoiceAttachments, nonInvoiceAttachments>>
     \/ \E object \in ExtractObjects :
          LET file == attachedFiles[p][idx[p]]
              inv == IF Accepts(object)
                     THEN Append(invoiceAttachments[p],
                                 [fileName |-> file, invoiceData |-> object.invoiceData])
                     ELSE invoiceAttachments[p]
              non == IF Accepts(object)
                     THEN nonInvoiceAttachments[p]
                     ELSE Append(nonInvoiceAttachments[p],
                                 [fileName |-> file, reasoning |-> object.reasoning])
          IN  /\ extracted' = [extracted EXCEPT ![p] = Append(@, object)]
              /\ invoiceAttachments' = [invoiceAttachments EXCEPT ![p] = inv]
              /\ nonInvoiceAttachments' = [nonInvoiceAttachments EXCEPT ![p] = non]
              /\ IF idx[p] < Len(attachedFiles[p]) /\ Len(inv) = 0
                 THEN /\ idx' = [idx EXCEPT ![p] = @ + 1]
                      /\ UNCHANGED <<pc, result, dataStream>>
                 ELSE IF Len(inv) = 0
                 THEN /\ pc' = [pc EXCEPT ![p] = "done"]
                      /\ result' = [result EXCEPT ![p] = Failure("No invoice data found")]
                      /\ UNCHANGED <<idx, dataStream>>
                 ELSE /\ pc' = [pc EXCEPT ![p] = "findDuplicate"]
                      /\ idx' = [idx EXCEPT ![p] = 1]
                      /\ UNCHANGED <<result, dataStream>>

\* one turn of the extraction loop: generateObject returns or throws
Extract(p) ==
  /\ pc[p] = "extract"
  /\ UNCHANGED <<store, ops, calls, handler, attachedFiles, savedInvoices, duplicateInvoices,
                 invoiceId, invoiceData, lineItems, body, Invoice0, LineItem0, closed, editor, messages>>
  /\ \/ /\ ProcessCatch(p)
        /\ UNCHANGED <<idx, extracted, invoiceAttachments, nonInvoiceAttachments>>
     \/ \E object \in ExtractObjects :
          LET file == attachedFiles[p][idx[p]]
              inv == IF Accepts(object)
                     THEN Append(invoiceAttachments[p],
                                 [fileName |-> file, invoiceData |-> object.invoiceData])
                     ELSE invoiceAttachments[p]
              non == IF Accepts(object)
                     THEN nonInvoiceAttachments[p]
                     ELSE Append(nonInvoiceAttachments[p],
                                 [fileName |-> file, reasoning |-> object.reasoning])
          IN  /\ extracted' = [extracted EXCEPT ![p] = Append(@, object)]
              /\ invoiceAttachments' = [invoiceAttachments EXCEPT ![p] = inv]
              /\ nonInvoiceAttachments' = [nonInvoiceAttachments EXCEPT ![p] = non]
              /\ IF idx[p] < Len(attachedFiles[p])
                 THEN /\ idx' = [idx EXCEPT ![p] = @ + 1]
                      /\ UNCHANGED <<pc, result, dataStream>>
                 ELSE IF Len(inv) = 0
                 THEN /\ pc' = [pc EXCEPT ![p] = "done"]
                      /\ result' = [result EXCEPT ![p] = Failure("No invoice data found")]
                      /\ UNCHANGED <<idx, dataStream>>
                 ELSE /\ pc' = [pc EXCEPT ![p] = "findDuplicate"]
                      /\ idx' = [idx EXCEPT ![p] = 1]
                      /\ UNCHANGED <<result, dataStream>>

\* the end of one turn of the save loop, and what follows the loop
NextAttachment(p, saved, dups) ==
  IF idx[p] < Len(invoiceAttachments[p])
  THEN /\ idx' = [idx EXCEPT ![p] = @ + 1]
       /\ pc' = [pc EXCEPT ![p] = "findDuplicate"]
       /\ UNCHANGED <<result, dataStream>>
  ELSE IF Len(saved) > 0 /\ closed[p]
  THEN \* the write of 'invoiceTable' throws
       /\ ProcessCatch(p)
       /\ UNCHANGED idx
  ELSE /\ pc' = [pc EXCEPT ![p] = "done"]
       /\ dataStream' = [dataStream EXCEPT ![p] =
                           IF Len(saved) > 0 THEN Append(@, "invoiceTable") ELSE @]
       /\ result' = [result EXCEPT ![p] =
                       Summary(saved, dups, nonInvoiceAttachments[p])]
       /\ UNCHANGED idx

\* the duplicate check without its continue: a flagged attachment is saved
FindDuplicateNoContinue(p) ==
  /\ pc[p] = "findDuplicate"
  /\ UNCHANGED <<Invoice, LineItem, ops, calls, handler, attachedFiles, extracted,
                 invoiceAttachments, nonInvoiceAttachments, savedInvoices,
                 lineItems, body, Invoice0, LineItem0, closed, editor, messages>>
  /\ \/ /\ ProcessCatch(p)
        /\ UNCHANGED <<nextId, idx, duplicateInvoices, invoiceId, invoiceData>>
     \/ LET attachment == invoiceAttachments[p][idx[p]]
            d == attachment.invoiceData
            duplicate == findDuplicateInvoice(d.vendorName, d.invoiceNumber, d.amount)
        IN  /\ duplicateInvoices' =
                 [duplicateInvoices EXCEPT ![p] =
                    IF duplicate # Null
                    THEN Append(@, [fileName |-> attachment.fileName,
                                    invoiceData |-> d,
                                    existingInvoice |-> duplicate])
                    ELSE @]
            /\ invoiceId' = [invoiceId EXCEPT ![p] = nextId]
            /\ nextId' = nextId + 1
            /\ invoiceData' = [invoiceData EXCEPT ![p] = d]
            /\ pc' = [pc EXCEPT ![p] = "saveInvoice"]
            /\ UNCHANGED <<idx, result, dataStream>>

\* the duplicate check of one accepted attachment
FindDuplicate(p) ==
  /\ pc[p] = "findDuplicate"
  /\ UNCHANGED <<Invoice, LineItem, ops, calls, handler, attachedFiles, extracted,
                 invoiceAttachments, nonInvoiceAttachments, savedInvoices,
                 lineItems, body, Invoice0, LineItem0, closed, editor, messages>>
  /\ \/ /\ ProcessCatch(p)
        /\ UNCHANGED <<nextId, idx, duplicateInvoices, invoiceId, invoiceData>>
     \/ LET attachment == invoiceAttachments[p][idx[p]]
            d == attachment.invoiceData
            duplicate == findDuplicateInvoice(d.vendorName, d.invoiceNumber, d.amount)
        IN  IF duplicate # Null
            THEN LET dups == Append(duplicateInvoices[p],
                                    [fileName |-> attachment.fileName,
                                     invoiceData |-> d,
                                     existingInvoice |-> duplicate])
                 IN  /\ duplicateInvoices' = [duplicateInvoices EXCEPT ![p] = dups]
                     /\ NextAttachment(p, savedInvoices[p], dups)
                     /\ UNCHANGED <<nextId, invoiceId, invoiceData>>
            ELSE \* saveInvoiceToDatabase, up to the call of saveInvoice
                 /\ invoiceId' = [invoiceId EXCEPT ![p] = nextId]
                 /\ nextId' = nextId + 1
                 /\ invoiceData' = [invoiceData EXCEPT ![p] = d]
                 /\ pc' = [pc EXCEPT ![p] = "saveInvoice"]
                 /\ UNCHANGED <<idx, duplicateInvoices, result, dataStream>>

\* saveInvoiceToDatabase: saveInvoice returns or throws
SaveInvoice(p) ==
  /\ pc[p] = "saveInvoice"
  /\ UNCHANGED <<LineItem, ops, calls, handler, attachedFiles, extracted, invoiceAttachments,
                 nonInvoiceAttachments, duplicateInvoices, invoiceId,
                 invoiceData, body, Invoice0, LineItem0, closed, editor, messages>>
  /\ \/ /\ ProcessCatch(p)
        /\ UNCHANGED <<Invoice, nextId, idx, savedInvoices, lineItems>>
     \/ /\ saveInvoiceOk(invoiceId[p])
        /\ Invoice' = saveInvoice(invoiceId[p], invoiceData[p])
        /\ IF Len(invoiceData[p].lineItems) > 0
           THEN /\ lineItems' = [lineItems EXCEPT ![p] =
                       TagLineItems(invoiceData[p].lineItems, invoiceId[p], nextId)]
                /\ nextId' = nextId + Len(invoiceData[p].lineItems)
                /\ pc' = [pc EXCEPT ![p] = "saveLineItems"]
                /\ UNCHANGED <<idx, savedInvoices, result, dataStream>>
           ELSE LET saved == Append(savedInvoices[p],
                                    SavedEntry(invoiceData[p], invoiceId[p]))
                IN  /\ savedInvoices' = [savedInvoices EXCEPT ![p] = saved]
                    /\ NextAttachment(p, saved, duplicateInvoices[p])
                    /\ UNCHANGED <<nextId, lineItems>>

\* saveLineItems with a catch that takes the invoice row back
SaveLineItemsRollback(p) ==
  /\ pc[p] = "saveLineItems"
  /\ UNCHANGED <<nextId, ops, calls, handler, attachedFiles, extracted,
                 invoiceAttachments, nonInvoiceAttachments, duplicateInvoices,
                 invoiceId, invoiceData, lineItems, body, Invoice0, LineItem0, closed, editor, messages>>
  /\ \/ /\ ProcessCatch(p)
        /\ Invoice' = deleteInvoiceRows(invoiceId[p])
        /\ UNCHANGED <<LineItem, idx, savedInvoices>>
     \/ /\ saveLineItemsOk(lineItems[p])
        /\ LineItem' = saveLineItems(lineItems[p])
        /\ UNCHANGED Invoice
        /\ LET saved == Append(savedInvoices[p],
                               SavedEntry(invoiceData[p], invoiceId[p]))
           IN  /\ savedInvoices' = [savedInvoices EXCEPT ![p] = saved]
               /\ NextAttachment(p, saved, duplicateInvoices[p])

\* saveInvoiceToDatabase: saveLineItems returns or throws
SaveLineItems(p) ==
  /\ pc[p] = "saveLineItems"
  /\ UNCHANGED <<Invoice, nextId, ops, calls, handler, attachedFiles, extracted,
                 invoiceAttachments, nonInvoiceAttachments, duplicateInvoices,
                 invoiceId, invoiceData, lineItems, body, Invoice0, LineItem0, closed, editor, messages>>
  /\ \/ /\ ProcessCatch(p)
        /\ UNCHANGED <<LineItem, idx, savedInvoices>>
     \/ /\ saveLineItemsOk(lineItems[p])
        /\ LineItem' = saveLineItems(lineItems[p])
        /\ LET saved == Append(savedInvoices[p],
                               SavedEntry(invoiceData[p], invoiceId[p]))
           IN  /\ savedInvoices' = [savedInvoices EXCEPT ![p] = saved]
               /\ NextAttachment(p, saved, duplicateInvoices[p])

\* --------------------------------------------------- saveInvoiceData tool
\* execute, up to the call of saveInvoice
SaveInvoiceDataStart(p) ==
  \E d \in InvoiceDataSet :
    /\ IF closed[p]
       THEN \* the write of 'savingStart' throws, and so does the catch block
            /\ Begin(p, "saveInvoiceData", "done", <<>>, Null, <<>>, Uncaught)
            /\ invoiceId' = [invoiceId EXCEPT ![p] = NoId]
            /\ UNCHANGED nextId
       ELSE /\ Begin(p, "saveInvoiceData", "toolSaveInvoice", <<>>, Null,
                     <<"savingStart">>, Null)
            /\ invoiceId' = [invoiceId EXCEPT ![p] = nextId]
            /\ nextId' = nextId + 1
    /\ invoiceData' = [invoiceData EXCEPT ![p] = d]
    /\ UNCHANGED calls
    /\ messages' = [messages EXCEPT ![p] = <<>>]
    /\ UNCHANGED <<Invoice, LineItem>>

\* a catch block that returns the failure without writing the 'error' event
SaveInvoiceDataCatchSilent(p) ==
  /\ pc' = [pc EXCEPT ![p] = "done"]
  /\ result' = [result EXCEPT ![p] =
                  IF closed[p] THEN Uncaught ELSE Failure("Database error")]
  /\ UNCHANGED dataStream

\* the catch block of execute
SaveInvoiceDataCatch(p) ==
  /\ pc' = [pc EXCEPT ![p] = "done"]
  /\ IF closed[p]
     THEN /\ result' = [result EXCEPT ![p] = Uncaught]
          /\ UNCHANGED dataStream
     ELSE /\ dataStream' = [dataStream EXCEPT ![p] = Append(@, "error")]
          /\ result' = [result EXCEPT ![p] = Failure("Database error")]

\* the success return of execute, or the catch block when the write of
\* 'savingComplete' throws
SaveInvoiceDataReturn(p) ==
  IF closed[p]
  THEN SaveInvoiceDataCatch(p)
  ELSE /\ pc' = [pc EXCEPT ![p] = "done"]
       /\ dataStream' = [dataStream EXCEPT ![p] = Append(@, "savingComplete")]
       /\ result' = [result EXCEPT ![p] =
                       [success |-> TRUE, error |-> "", invoiceId |-> invoiceId[p]]]

\* saveInvoice returns or throws
SaveInvoiceDataInvoice(p) ==
  /\ pc[p] = "toolSaveInvoice"
  /\ UNCHANGED <<LineItem, ops, calls, handler, attachedFiles, idx, extracted,
                 invoiceAttachments, nonInvoiceAttachments, savedInvoices,
                 duplicateInvoices, invoiceId, invoiceData, body, Invoice0,
                 LineItem0, closed, editor, messages>>
  /\ \/ /\ SaveInvoiceDataCatch(p)
        /\ UNCHANGED <<Invoice, nextId, lineItems>>
     \/ /\ saveInvoiceOk(invoiceId[p])
        /\ Invoice' = saveInvoice(invoiceId[p], invoiceData[p])
        /\ IF Len(invoiceData[p].lineItems) > 0
           THEN /\ lineItems' = [lineItems EXCEPT ![p] =
                       TagLineItems(invoiceData[p].lineItems, invoiceId[p], nextId)]
                /\ nextId' = nextId + Len(invoiceData[p].lineItems)
                /\ pc' = [pc EXCEPT ![p] = "toolSaveLineItems"]
                /\ UNCHANGED <<result, dataStream>>
           ELSE /\ SaveInvoiceDataReturn(p)
                /\ UNCHANGED <<nextId, lineItems>>

\* saveLineItems returns or throws
SaveInvoiceDataLineItems(p) ==
  /\ pc[p] = "toolSaveLineItems"
  /\ UNCHANGED <<Invoice, nextId, ops, calls, handler, attachedFiles, idx, extracted,
                 invoiceAttachments, nonInvoiceAttachments, savedInvoices,
                 duplicateInvoices, invoiceId, invoiceData, lineItems, body,
                 Invoice0, LineItem0, closed, editor, messages>>
  /\ \/ /\ SaveInvoiceDataCatch(p)
        /\ UNCHANGED LineItem
     \/ /\ saveLineItemsOk(lineItems[p])
        /\ LineItem' = saveLineItems(lineItems[p])
        /\ SaveInvoiceDataReturn(p)

\* ------------------------------------------------------------ PUT /invoices
Undefined == [undefined |-> TRUE]

\* the invoice fields of a request body: has names the fields the body
\* supplies, and the value of a field it does not supply is not read
Patch(has, c, v, n, a) ==
  [has |-> has, customerName |-> c, vendorName |-> v, invoiceNumber |-> n,
   amount |-> a]

PatchSet ==
  { Patch({}, "", "", "", 0),
    Patch({"amount"}, "", "", "", 101),
    Patch({"customerName", "vendorName"}, "Eve", "acme", "", 0) }

\* the lineItems of a request body: absent, empty, an item without id, or
\* an item carrying the id of a stored line item
BodyLineItems ==
  { [present |-> FALSE, items |-> <<>>],
    [present |-> TRUE, items |-> <<>>],
    [present |-> TRUE, items |-> <<[id |-> NoId, amount |-> 50]>>] }
  \cup { [present |-> TRUE, items |-> <<[id |-> k, amount |-> 50]>>]
         : k \in Ids(LineItem) }

Response(status, inv, items) ==
  [status |-> status, invoice |-> inv, lineItems |-> items]

\* an update that writes every field of its argument, supplied or not
updateRowOverwrite(r, patch) ==
  [r EXCEPT
     !.customerName = patch.customerName,
     !.vendorName = patch.vendorName,
     !.invoiceNumber = patch.invoiceNumber,
     !.amount = patch.amount]

\* updateInvoice: the row after the update, field by field
updateRow(r, patch) ==
  [r EXCEPT
     !.customerName = IF "customerName" \in patch.has THEN patch.customerName ELSE @,
     !.vendorName = IF "vendorName" \in patch.has THEN patch.vendorName ELSE @,
     !.invoiceNumber = IF "invoiceNumber" \in patch.has THEN patch.invoiceNumber ELSE @,
     !.amount = IF "amount" \in patch.has THEN patch.amount ELSE @]

\* .set(updateValues) rejects an empty updateValues
updateInvoiceOk(patch) == patch.has # {}

\* an update that inserts a row when none has the id
updateInvoiceUpsert(id, patch) ==
  IF id \in Ids(Invoice)
  THEN [i \in 1..Len(Invoice) |->
          IF Invoice[i].id = id THEN updateRow(Invoice[i], patch) ELSE Invoice[i]]
  ELSE Append(Invoice,
              [id |-> id, createdAt |-> Now, customerName |-> patch.customerName,
               vendorName |-> patch.vendorName, invoiceNumber |-> patch.invoiceNumber,
               amount |-> patch.amount, status |-> "processed"])

updateInvoice(id, patch) ==
  [i \in 1..Len(Invoice) |->
     IF Invoice[i].id = id THEN updateRow(Invoice[i], patch) ELSE Invoice[i]]

\* .returning().get(): the updated row, or Undefined when no row matched
updatedInvoice(table, id) ==
  IF id \in Ids(table)
  THEN table[CHOOSE i \in 1..Len(table) : table[i].id = id]
  ELSE Undefined

\* lineItems.map(item => ({...item, id: item.id || generateUUID(), invoiceId: id}))
FormatLineItems(items, id, first) ==
  [i \in 1..Len(items) |->
     [id |-> IF items[i].id # NoId THEN items[i].id ELSE first + i - 1,
      invoiceId |-> id, amount |-> items[i].amount]]

\* what a storage call throws: the database fails, .set() is given no value,
\* an insert violates a constraint
Unavailable == "database unavailable"
NoValues == "No values to set"
Constraint == "constraint failed"

\* the catch block of PUT: console.error(error) and the 500 response
PutCatch(p, error) ==
  /\ pc' = [pc EXCEPT ![p] = "done"]
  /\ result' = [result EXCEPT ![p] =
                  [status |-> 500, invoice |-> Undefined,
                   lineItems |-> [present |-> FALSE, items |-> <<>>],
                   logged |-> error]]

\* PUT without the test of the id
PutStartNoIdTest(p) ==
  \E id \in Ids(Invoice) \cup {NoId} \cup UnknownIds, patch \in PatchSet,
     items \in BodyLineItems :
    LET b == [id |-> id, patch |-> patch, lineItems |-> items]
    IN  /\ Begin(p, "PUT", "putUpdate", <<>>, b, <<>>, Null)
        /\ invoiceId' = [invoiceId EXCEPT ![p] = NoId]
        /\ invoiceData' = [invoiceData EXCEPT ![p] = Null]
        /\ UNCHANGED calls
        /\ messages' = [messages EXCEPT ![p] = <<>>]
        /\ UNCHANGED store

\* PUT, up to the call of updateInvoice, or the 400 response
PutStart(p) ==
  \E id \in Ids(Invoice) \cup {NoId} \cup UnknownIds, patch \in PatchSet,
     items \in BodyLineItems :
    LET b == [id |-> id, patch |-> patch, lineItems |-> items]
    IN  /\ IF id = NoId
           THEN Begin(p, "PUT", "done", <<>>, b, <<>>,
                      Response(400, Undefined, [present |-> FALSE, items |-> <<>>]))
           ELSE Begin(p, "PUT", "putUpdate", <<>>, b, <<>>, Null)
        /\ invoiceId' = [invoiceId EXCEPT ![p] = NoId]
        /\ invoiceData' = [invoiceData EXCEPT ![p] = Null]
        /\ UNCHANGED calls
        /\ messages' = [messages EXCEPT ![p] = <<>>]
        /\ UNCHANGED store

\* updateInvoice returns or throws
PutUpdate(p) ==
  /\ pc[p] = "putUpdate"
  /\ UNCHANGED <<LineItem, nextId, ops, calls, handler, attachedFiles, idx, extracted,
                 invoiceAttachments, nonInvoiceAttachments, savedInvoices,
                 duplicateInvoices, invoiceId, lineItems, body, dataStream,
                 Invoice0, LineItem0, closed, editor, messages>>
  /\ \/ /\ PutCatch(p, Unavailable)
        /\ UNCHANGED <<Invoice, invoiceData>>
     \/ /\ ~updateInvoiceOk(body[p].patch)
        /\ PutCatch(p, NoValues)
        /\ UNCHANGED <<Invoice, invoiceData>>
     \/ /\ updateInvoiceOk(body[p].patch)
        /\ Invoice' = updateInvoice(body[p].id, body[p].patch)
        /\ invoiceData' = [invoiceData EXCEPT ![p] = updatedInvoice(Invoice', body[p].id)]
        /\ IF body[p].lineItems.present
           THEN /\ pc' = [pc EXCEPT ![p] = "putDelete"]
                /\ UNCHANGED result
           ELSE /\ pc' = [pc EXCEPT ![p] = "done"]
                /\ result' = [result EXCEPT ![p] =
                     Response(200, updatedInvoice(Invoice', body[p].id), body[p].lineItems)]

\* deleteLineItemsByInvoiceId returns or throws
PutDelete(p) ==
  /\ pc[p] = "putDelete"
  /\ UNCHANGED <<Invoice, ops, calls, handler, attachedFiles, idx, extracted,
                 invoiceAttachments, nonInvoiceAttachments, savedInvoices,
                 duplicateInvoices, invoiceId, invoiceData, body, dataStream,
                 Invoice0, LineItem0, closed, editor, messages>>
  /\ \/ /\ PutCatch(p, Unavailable)
        /\ UNCHANGED <<LineItem, nextId, lineItems>>
     \/ /\ LineItem' = deleteLineItemsByInvoiceId(body[p].id)
        /\ IF Len(body[p].lineItems.items) > 0
           THEN /\ lineItems' = [lineItems EXCEPT ![p] =
                       FormatLineItems(body[p].lineItems.items, body[p].id, nextId)]
                /\ nextId' = nextId + Len(body[p].lineItems.items)
                /\ pc' = [pc EXCEPT ![p] = "putInsert"]
                /\ UNCHANGED result
           ELSE /\ pc' = [pc EXCEPT ![p] = "done"]
                /\ result' = [result EXCEPT ![p] =
                     Response(200, invoiceData[p], body[p].lineItems)]
                /\ UNCHANGED <<nextId, lineItems>>

\* an insert whose failure puts the deleted line items back
PutInsertRestore(p) ==
  /\ pc[p] = "putInsert"
  /\ UNCHANGED <<Invoice, nextId, ops, calls, handler, attachedFiles, idx, extracted,
                 invoiceAttachments, nonInvoiceAttachments, savedInvoices,
                 duplicateInvoices, invoiceId, invoiceData, lineItems, body,
                 dataStream, Invoice0, LineItem0, closed, editor, messages>>
  /\ \/ /\ PutCatch(p, Unavailable)
        /\ LineItem' = LineItem0[p]
     \/ /\ ~saveLineItemsOk(lineItems[p])
        /\ PutCatch(p, Constraint)
        /\ LineItem' = LineItem0[p]
     \/ /\ saveLineItemsOk(lineItems[p])
        /\ LineItem' = saveLineItems(lineItems[p])
        /\ pc' = [pc EXCEPT ![p] = "done"]
        /\ result' = [result EXCEPT ![p] =
             Response(200, invoiceData[p], body[p].lineItems)]

\* saveLineItems returns or throws
PutInsert(p) ==
  /\ pc[p] = "putInsert"
  /\ UNCHANGED <<Invoice, nextId, ops, calls, handler, attachedFiles, idx, extracted,
                 invoiceAttachments, nonInvoiceAttachments, savedInvoices,
                 duplicateInvoices, invoiceId, invoiceData, lineItems, body,
                 dataStream, Invoice0, LineItem0, closed, editor, messages>>
  /\ \/ /\ PutCatch(p, Unavailable)
        /\ UNCHANGED LineItem
     \/ /\ ~saveLineItemsOk(lineItems[p])
        /\ PutCatch(p, Constraint)
        /\ UNCHANGED LineItem
     \/ /\ saveLineItemsOk(lineItems[p])
        /\ LineItem' = saveLineItems(lineItems[p])
        /\ pc' = [pc EXCEPT ![p] = "done"]
        /\ result' = [result EXCEPT ![p] =
             Response(200, invoiceData[p], body[p].lineItems)]

\* -------------------------------------------------------- deleteInvoiceById
\* a deletion that does not cascade
cascadeLineItemsOff(id) == LineItem

\* the rows of LineItem left by the ON DELETE cascade of the deleted rows
cascadeLineItems(id) ==
  IF id \in Ids(Invoice) THEN deleteLineItemsByInvoiceId(id) ELSE LineItem

\* one DELETE statement; a statement that throws changes nothing
DeleteInvoiceById(p) ==
  \E id \in Ids(Invoice) \cup UnknownIds, ok \in BOOLEAN :
    /\ Begin(p, "deleteInvoiceById", "done", <<>>, [id |-> id], <<>>,
             [success |-> ok, error |-> ""])
    /\ invoiceId' = [invoiceId EXCEPT ![p] = NoId]
    /\ invoiceData' = [invoiceData EXCEPT ![p] = Null]
    /\ Invoice' = IF ok THEN deleteInvoiceRows(id) ELSE Invoice
    /\ LineItem' = IF ok THEN cascadeLineItems(id) ELSE LineItem
    /\ UNCHANGED calls
    /\ messages' = [messages EXCEPT ![p] = <<>>]
    /\ UNCHANGED nextId

\* ---------------------------------------------------------- GET /invoices
\* table[i] comes before table[j] under ORDER BY createdAt DESC; rows of
\* equal createdAt come in rowid order
Before(table, i, j) ==
  \/ table[i].createdAt > table[j].createdAt
  \/ table[i].createdAt = table[j].createdAt /\ i < j

\* select().from(invoice).limit(limit).offset(offset).orderBy(desc(createdAt)).all()
getInvoices(limit, offset) ==
  LET n == Len(Invoice)
      Rank(i) == Cardinality({ j \in 1..n : Before(Invoice, j, i) }) + 1
      At(k) == CHOOSE i \in 1..n : Rank(i) = k
      len == IF n - offset < 0 THEN 0
             ELSE IF n - offset > limit THEN limit ELSE n - offset
  IN  [k \in 1..len |-> Invoice[At(offset + k)]]

\* GET: getInvoices() with its defaults returns or throws
Get(p) ==
  \E ok \in BOOLEAN :
    /\ Begin(p, "GET", "done", <<>>, Null, <<>>,
             IF ok THEN [status |-> 200, invoices |-> getInvoices(DefaultLimit, 0)]
             ELSE [status |-> 500, invoices |-> <<>>])
    /\ invoiceId' = [invoiceId EXCEPT ![p] = NoId]
    /\ invoiceData' = [invoiceData EXCEPT ![p] = Null]
    /\ UNCHANGED calls
    /\ messages' = [messages EXCEPT ![p] = <<>>]
    /\ UNCHANGED store

\* ------------------------------------------------------------- the client
\* the client of a tool's data stream goes away
Disconnect(p) ==
  /\ ~closed[p]
  /\ closed' = [closed EXCEPT ![p] = TRUE]
  /\ UNCHANGED <<store, ops, calls, handler, pc, locals, result, dataStream,
                 Invoice0, LineItem0, editor, messages>>

Next ==
  \E p \in Sequential :
    \/ ProcessStart(p)
    \/ Extract(p)
    \/ FindDuplicate(p)
    \/ SaveInvoice(p)
    \/ SaveLineItems(p)
    \/ SaveInvoiceDataStart(p)
    \/ SaveInvoiceDataInvoice(p)
    \/ SaveInvoiceDataLineItems(p)
    \/ PutStart(p)
    \/ PutUpdate(p)
    \/ PutDelete(p)
    \/ PutInsert(p)
    \/ DeleteInvoiceById(p)
    \/ Get(p)

Spec == Init /\ [][Next]_vars

\* the store after n saveInvoiceData executions for Eve's invoice
StoredInvoices(n) ==
  [i \in 1..n |->
     [id |-> i, createdAt |-> i + 1, customerName |-> "Eve", vendorName |-> "Acme",
      invoiceNumber |-> "INV-1", amount |-> 100, status |-> "processed"]]

\* one more invoice than a page of getInvoices holds
MaxInvoices == DefaultLimit + 1

InitGet ==
  /\ \E n \in 0..MaxInvoices :
       /\ Invoice = StoredInvoices(n)
       /\ nextId = n + 1
  /\ LineItem = <<>>
  /\ InitHandlers
  /\ InitNoEditor

NextGet == \E p \in Sequential : Get(p)

SpecGet == InitGet /\ [][NextGet]_vars

\* the next chat request brings a data stream of its own
Connect(p) ==
  /\ closed[p]
  /\ pc[p] \in {"idle", "done"}
  /\ closed' = [closed EXCEPT ![p] = FALSE]
  /\ UNCHANGED <<store, ops, calls, handler, pc, locals, result, dataStream, Invoice0,
                 LineItem0, editor, messages>>

NextDisconnect ==
  \/ Next
  \/ \E p \in Sequential : Disconnect(p)
  \/ \E p \in Sequential : Connect(p)

SpecDisconnect == Init /\ [][NextDisconnect]_vars

\* ------------------------------------------------------ two PUTs at a time
\* the store after saveInvoiceData was executed for Bob's invoice INV-1
InitPut ==
  /\ Invoice = << [id |-> 1, createdAt |-> 2, customerName |-> "Bob",
                   vendorName |-> "Acme", invoiceNumber |-> "INV-1", amount |-> 100,
                   status |-> "processed"] >>
  /\ LineItem = << [id |-> 2, invoiceId |-> 1, amount |-> 100] >>
  /\ nextId = 3
  /\ InitHandlers
  /\ InitNoEditor

\* each route handler runs up to its next await, then another may run
NextPut ==
  \E p \in Procs :
    \/ PutStart(p)
    \/ PutUpdate(p)
    \/ PutDelete(p)
    \/ PutInsert(p)

SpecPut == InitPut /\ [][NextPut]_vars

\* ------------------------------------------ two tool executions at a time
\* each execution of processInvoiceData runs up to its next await, then the
\* other may run
NextProcess ==
  \E p \in Procs :
    \/ ProcessStart(p)
    \/ Extract(p)
    \/ FindDuplicate(p)
    \/ SaveInvoice(p)
    \/ SaveLineItems(p)

SpecProcess == Init /\ [][NextProcess]_vars

\* ------------------------------------------- the tool executed once more
\* a step of the chat request runs processInvoiceData, and later steps of
\* the same or of a later request run it again
NextRerun ==
  \/ /\ pc["p1"] # "done"
     /\ \/ ProcessStart("p1")
        \/ Extract("p1")
        \/ FindDuplicate("p1")
        \/ SaveInvoice("p1")
        \/ SaveLineItems("p1")
  \/ /\ pc["p1"] = "done"
     /\ \/ ProcessStart("p2")
        \/ Extract("p2")
        \/ FindDuplicate("p2")
        \/ SaveInvoice("p2")
        \/ SaveLineItems("p2")

SpecRerun == Init /\ [][NextRerun]_vars

\* ----------------------------------------------------------- invoice editor
\* parseFloat of an input that holds no number; encoded as a value that no
\* amount, quantity or price takes
NaN == 0 - 1

\* what the number inputs of a row in edit mode may deliver
NumberInputs == {NaN, 0, 2}

\* what the text inputs may deliver
TextInputs == {"Zed"}

DraftItem(d, q, u, a) ==
  [description |-> d, quantity |-> q, unitPrice |-> u, amount |-> a]

EditorInvoice(id, v, a, li) ==
  [id |-> id, vendorName |-> v, amount |-> a, lineItems |-> li]

\* the invoices the component is given: one whose amount is not the sum of
\* its line items, and one without line items
InitialInvoices ==
  << EditorInvoice(1, "Acme", 100, <<DraftItem("work", 1, 60, 60)>>),
     EditorInvoice(2, "Bolt", 50, <<>>) >>

\* item.amount || 0
OrZero(a) == IF a = NaN THEN 0 ELSE a

\* lineItems.reduce((sum, item) => sum + (item.amount || 0), 0)
RECURSIVE totalAmount(_)
totalAmount(items) ==
  IF items = <<>> THEN 0
  ELSE totalAmount(SubSeq(items, 1, Len(items) - 1)) + OrZero(items[Len(items)].amount)

\* the fields of a line item whose change recomputes the draft's amount
RecomputeFields == {"amount", "quantity", "unitPrice"}

\* an event of the editor; the inputs and buttons of a draft are rendered
\* for the row in edit mode only
Event(editing) ==
  /\ edits < MaxEdits
  /\ edits' = edits + 1
  /\ editing => editingId # NoId
  /\ UNCHANGED <<store, ops, calls, handler, pc, locals, result, dataStream, Invoice0,
                 LineItem0, closed, messages>>

\* Edit is rendered for the rows that are not in edit mode
startEditing(i) ==
  /\ Event(FALSE)
  /\ invoices[i].id # editingId
  /\ editingId' = invoices[i].id
  /\ invoicesAtEdit' = invoices
  /\ editData' = [vendorName |-> invoices[i].vendorName,
                  amount |-> invoices[i].amount,
                  lineItems |-> invoices[i].lineItems]
  /\ UNCHANGED <<invoices, isUpdating, saving, response>>

\* a field change that writes to the row of the table as well
handleInputChangeInPlace(field, value) ==
  /\ Event(TRUE)
  /\ editData' = [editData EXCEPT ![field] = value]
  /\ invoices' = [k \in 1..Len(invoices) |->
                    IF invoices[k].id = editingId
                    THEN [invoices[k] EXCEPT ![field] = value]
                    ELSE invoices[k]]
  /\ UNCHANGED <<editingId, isUpdating, saving, response,
                 invoicesAtEdit>>

handleInputChange(field, value) ==
  /\ Event(TRUE)
  /\ editData' = [editData EXCEPT ![field] = value]
  /\ UNCHANGED <<invoices, editingId, isUpdating, saving, response,
                 invoicesAtEdit>>

\* a change that recomputes the amount for a change of the amount only
handleLineItemChangeAmountOnly(index, field, value) ==
  LET items == [editData.lineItems EXCEPT ![index] = [@ EXCEPT ![field] = value]]
  IN  /\ Event(TRUE)
      /\ index \in 1..Len(editData.lineItems)
      /\ editData' = IF field = "amount"
                     THEN [editData EXCEPT !.lineItems = items,
                                           !.amount = totalAmount(items)]
                     ELSE [editData EXCEPT !.lineItems = items]
      /\ UNCHANGED <<invoices, editingId, isUpdating, saving, response,
                 invoicesAtEdit>>

handleLineItemChange(index, field, value) ==
  LET items == [editData.lineItems EXCEPT ![index] = [@ EXCEPT ![field] = value]]
  IN  /\ Event(TRUE)
      /\ index \in 1..Len(editData.lineItems)
      /\ editData' = IF field \in RecomputeFields
                     THEN [editData EXCEPT !.lineItems = items,
                                           !.amount = totalAmount(items)]
                     ELSE [editData EXCEPT !.lineItems = items]
      /\ UNCHANGED <<invoices, editingId, isUpdating, saving, response,
                 invoicesAtEdit>>

addLineItem ==
  /\ Event(TRUE)
  /\ Len(editData.lineItems) < MaxItems
  /\ editData' = [editData EXCEPT !.lineItems = Append(@, DraftItem("", 1, 0, 0))]
  /\ UNCHANGED <<invoices, editingId, isUpdating, saving, response,
                 invoicesAtEdit>>

removeLineItem(index) ==
  LET items == [k \in 1..(Len(editData.lineItems) - 1) |->
                  IF k < index THEN editData.lineItems[k] ELSE editData.lineItems[k + 1]]
  IN  /\ Event(TRUE)
      /\ index \in 1..Len(editData.lineItems)
      /\ editData' = [editData EXCEPT !.lineItems = items,
                                      !.amount = totalAmount(items)]
      /\ UNCHANGED <<invoices, editingId, isUpdating, saving, response,
                 invoicesAtEdit>>

\* saveChanges up to its await; Save is disabled while a Save is in flight
saveChanges ==
  /\ Event(TRUE)
  /\ ~isUpdating
  /\ isUpdating' = TRUE
  /\ saving' = [editingId |-> editingId, editData |-> editData, invoices |-> invoices]
  /\ response' = NoResponse
  /\ UNCHANGED <<invoices, editingId, editData, invoicesAtEdit>>

\* { ...inv, ...editData }
Merged(inv, data) ==
  [inv EXCEPT !.vendorName = data.vendorName, !.amount = data.amount,
              !.lineItems = data.lineItems]

\* how the update request of a Save ends: fetch resolves with an OK response,
\* resolves with a response that is not OK, or rejects
Responses == {"ok", "notOk", "threw"}

\* a saveChanges without its finally block
saveChangesSettledNoFinally ==
  /\ saving # Null
  /\ \E r \in Responses :
       /\ response' = r
       /\ IF r = "ok"
          THEN /\ invoices' = [k \in 1..Len(saving.invoices) |->
                                 IF saving.invoices[k].id = saving.editingId
                                 THEN Merged(saving.invoices[k], saving.editData)
                                 ELSE saving.invoices[k]]
               /\ editingId' = NoId
               /\ editData' = <<>>
               /\ isUpdating' = FALSE
          ELSE UNCHANGED <<invoices, editingId, editData, isUpdating>>
  /\ saving' = Null
  /\ UNCHANGED <<store, ops, calls, handler, pc, locals, result, dataStream, Invoice0,
                 LineItem0, closed, edits, invoicesAtEdit, messages>>

\* saveChanges after its await: the response is ok, or is not, or fetch threw
saveChangesSettled ==
  /\ saving # Null
  /\ \E r \in Responses :
       /\ response' = r
       /\ IF r = "ok"
          THEN /\ invoices' = [k \in 1..Len(saving.invoices) |->
                                 IF saving.invoices[k].id = saving.editingId
                                 THEN Merged(saving.invoices[k], saving.editData)
                                 ELSE saving.invoices[k]]
               /\ editingId' = NoId
               /\ editData' = <<>>
          ELSE UNCHANGED <<invoices, editingId, editData>>
  /\ isUpdating' = FALSE
  /\ saving' = Null
  /\ UNCHANGED <<store, ops, calls, handler, pc, locals, result, dataStream, Invoice0,
                 LineItem0, closed, edits, invoicesAtEdit, messages>>

\* Cancel is disabled while a Save is in flight
cancelEditing ==
  /\ Event(TRUE)
  /\ ~isUpdating
  /\ editingId' = NoId
  /\ editData' = <<>>
  /\ UNCHANGED <<invoices, isUpdating, saving, response,
                 invoicesAtEdit>>

InitEditor ==
  /\ Invoice = <<>>
  /\ LineItem = <<>>
  /\ nextId = 1
  /\ InitHandlers
  /\ invoices = InitialInvoices
  /\ editingId = NoId
  /\ editData = <<>>
  /\ isUpdating = FALSE
  /\ saving = Null
  /\ response = NoResponse
  /\ edits = 0
  /\ invoicesAtEdit = <<>>

NextEditor ==
  \/ \E i \in 1..Len(invoices) : startEditing(i)
  \/ \E value \in TextInputs : handleInputChange("vendorName", value)
  \/ \E value \in NumberInputs : handleInputChange("amount", value)
  \/ \E index \in 1..MaxItems :
       \/ \E value \in TextInputs : handleLineItemChange(index, "description", value)
       \/ \E field \in RecomputeFields, value \in NumberInputs :
            handleLineItemChange(index, field, value)
  \/ addLineItem
  \/ \E index \in 1..MaxItems : removeLineItem(index)
  \/ saveChanges
  \/ saveChangesSettled
  \/ cancelEditing

SpecEditor == InitEditor /\ [][NextEditor]_vars

\* the editor when every update request settles: the continuation of
\* saveChanges after its await then runs
SpecEditorFair == SpecEditor /\ WF_vars(saveChangesSettled)

\* ------------------------------------------------------------------ claims
\* the duplicate key of invoice data or of an Invoice row
Key(d) == <<d.vendorName, d.invoiceNumber, d.amount>>

FileNames(bucket) == { bucket[k].fileName : k \in 1..Len(bucket) }

Running(p, h) == handler[p] = h /\ pc[p] # "idle"

Finished(p, h) == handler[p] = h /\ pc[p] = "done"

\* C1: every file whose extraction call returned is in the invoice bucket
\* exactly when isInvoice is true and confidence is strictly greater than
\* 0.75, and is in the non-invoice bucket otherwise; no file is in both.
C1_AcceptanceThreshold ==
  \A p \in Procs : \A i \in 1..Len(extracted[p]) :
    LET object == extracted[p][i]
        file == attachedFiles[p][i]
        accepted == object.isInvoice /\ object.confidence > Threshold
    IN  /\ accepted <=> file \in FileNames(invoiceAttachments[p])
        /\ ~accepted <=> file \in FileNames(nonInvoiceAttachments[p])

\* a batch with a result at exactly 0.75, a result with isInvoice false at
\* high confidence and an accepted result, each in its bucket
C1_Witness ==
  \E p \in Procs : \E i, j, k \in 1..Len(extracted[p]) :
    /\ extracted[p][i].isInvoice /\ extracted[p][i].confidence = Threshold
    /\ attachedFiles[p][i] \in FileNames(nonInvoiceAttachments[p])
    /\ ~extracted[p][j].isInvoice /\ extracted[p][j].confidence > Threshold
    /\ attachedFiles[p][j] \in FileNames(nonInvoiceAttachments[p])
    /\ extracted[p][k].isInvoice /\ extracted[p][k].confidence > Threshold
    /\ attachedFiles[p][k] \in FileNames(invoiceAttachments[p])

\* C2: when a processInvoiceData execution has ended, every attached file
\* either had its extraction call return or (its call threw) is recorded as a
\* non-invoice rejection: a throwing extraction call does not keep the
\* remaining files from being extracted.
C2_ExtractionThrowIsolated ==
  \A p \in Procs :
    Finished(p, "processInvoiceData") =>
      \A i \in 1..Len(attachedFiles[p]) :
        \/ i <= Len(extracted[p])
        \/ attachedFiles[p][i] \in FileNames(nonInvoiceAttachments[p])

\* C3: a batch [A, B, C] against a store with no invoice of A's key, A
\* accepted at 0.9, B isInvoice at 0.5, C accepted with A's key, that
\* returns its summary: A alone is persisted, C is in the duplicate bucket
\* referencing A's new id, B is in the non-invoice bucket.
C3_Scenario(p) ==
  /\ Finished(p, "processInvoiceData")
  /\ result[p].success
  /\ Len(extracted[p]) = 3
  /\ extracted[p][1].isInvoice /\ extracted[p][1].confidence = 90
  /\ extracted[p][2].isInvoice /\ extracted[p][2].confidence = 50
  /\ extracted[p][3].isInvoice /\ extracted[p][3].confidence > Threshold
  /\ Key(extracted[p][3].invoiceData) = Key(extracted[p][1].invoiceData)
  /\ \A r \in Range(Invoice0[p]) : Key(r) # Key(extracted[p][1].invoiceData)

C3_Outcome(p) ==
  /\ Len(savedInvoices[p]) = 1
  /\ savedInvoices[p][1].id \notin Ids(Invoice0[p])
  /\ savedInvoices[p][1] =
       SavedEntry(extracted[p][1].invoiceData, savedInvoices[p][1].id)
  /\ Len(Invoice) = Len(Invoice0[p]) + 1
  /\ SubSeq(Invoice, 1, Len(Invoice0[p])) = Invoice0[p]
  /\ Invoice[Len(Invoice)].id = savedInvoices[p][1].id
  /\ Key(Invoice[Len(Invoice)]) = Key(extracted[p][1].invoiceData)
  /\ Len(duplicateInvoices[p]) = 1
  /\ duplicateInvoices[p][1].fileName = attachedFiles[p][3]
  /\ duplicateInvoices[p][1].existingInvoice.id = savedInvoices[p][1].id
  /\ Len(nonInvoiceAttachments[p]) = 1
  /\ nonInvoiceAttachments[p][1].fileName = attachedFiles[p][2]

C3_BatchOfThree == \A p \in Procs : C3_Scenario(p) => C3_Outcome(p)

\* the scenario has run, with C differing from A outside the key
C3_Witness ==
  \E p \in Procs :
    /\ C3_Scenario(p)
    /\ C3_Outcome(p)
    /\ extracted[p][3].invoiceData # extracted[p][1].invoiceData

\* the accepted attachments whose turn of the save loop has ended
Handled(p) == Len(savedInvoices[p]) + Len(duplicateInvoices[p])

\* the rows a request has added to a table since it started
Added(table, table0) == Len(table0) + 1 .. Len(table)

\* C4: an accepted result handled after an invoice with the same
\* (vendorName, invoiceNumber, amount) was persisted, by an earlier attachment
\* of the batch or by an earlier execution, is in the duplicate bucket with a
\* reference to that invoice, and no Invoice or LineItem row is created for it.
C4_SecondIsDuplicate ==
  \A p \in Procs :
    Running(p, "processInvoiceData") =>
      \A j \in 1..Handled(p) :
        LET a == invoiceAttachments[p][j]
            K == Key(a.invoiceData)
            before == { r \in Range(Invoice0[p]) : Key(r) = K }
            first == { k \in 1..Len(savedInvoices[p]) : Key(savedInvoices[p][k]) = K }
            earlier == { i \in 1..(j - 1) : Key(invoiceAttachments[p][i].invoiceData) = K }
            created == { i \in Added(Invoice, Invoice0[p]) : Key(Invoice[i]) = K }
        IN  (before # {} \/ earlier # {}) =>
              /\ \E k \in 1..Len(duplicateInvoices[p]) :
                   LET e == duplicateInvoices[p][k]
                   IN  /\ e.fileName = a.fileName
                       /\ e.existingInvoice \in Range(Invoice)
                       /\ Key(e.existingInvoice) = K
                       /\ IF before # {}
                          THEN e.existingInvoice \in before
                          ELSE \E f \in first :
                                 e.existingInvoice.id = savedInvoices[p][f].id
              /\ Cardinality(created) = IF before # {} THEN 0 ELSE 1
              /\ \A i \in Added(LineItem, LineItem0[p]) :
                   \E f \in 1..Len(savedInvoices[p]) :
                     LineItem[i].invoiceId = savedInvoices[p][f].id

\* a second execution has flagged Bob's invoice as a duplicate of the row an
\* earlier request persisted for Eve's invoice of the same key, and has
\* written nothing
C4_Witness ==
  \E p \in Procs :
    /\ Finished(p, "processInvoiceData")
    /\ result[p].success
    /\ Len(duplicateInvoices[p]) = 1
    /\ duplicateInvoices[p][1].invoiceData.customerName = "Bob"
    /\ duplicateInvoices[p][1].existingInvoice.customerName = "Eve"
    /\ duplicateInvoices[p][1].existingInvoice \in Range(Invoice0[p])
    /\ Invoice = Invoice0[p]
    /\ LineItem = LineItem0[p]

\* the values of the three key fields
VendorNames == {"Acme", "acme"}
InvoiceNumbers == {"INV-1", "INV-2"}
Amounts == {100, 101}

\* C5: findDuplicateInvoice returns a persisted invoice whose vendorName,
\* invoiceNumber and amount all equal the arguments whenever one exists, and
\* no match otherwise; a row differing in one of the fields is not returned.
C5_ExactMatch ==
  \A v \in VendorNames, n \in InvoiceNumbers, a \in Amounts :
    LET r == findDuplicateInvoice(v, n, a)
        matches == { i \in 1..Len(Invoice) : Key(Invoice[i]) = <<v, n, a>> }
    IN  IF matches = {}
        THEN r = Null
        ELSE \E i \in matches : r = Invoice[i]

\* the store holds a row that differs from ("Acme", "INV-1", 100) in the case
\* of the vendor name only and one that differs in the invoice number only;
\* the lookup of that key finds nothing and the lookup of each row's own key
\* finds the row
C5_Witness ==
  /\ \E i \in 1..Len(Invoice) : Key(Invoice[i]) = <<"acme", "INV-1", 100>>
  /\ \E i \in 1..Len(Invoice) : Key(Invoice[i]) = <<"Acme", "INV-2", 100>>
  /\ findDuplicateInvoice("Acme", "INV-1", 100) = Null
  /\ findDuplicateInvoice("acme", "INV-1", 100).vendorName = "acme"
  /\ findDuplicateInvoice("Acme", "INV-2", 100).invoiceNumber = "INV-2"

\* C6: the Invoice rows a processInvoiceData execution creates are rows of
\* files accepted by the acceptance policy and not flagged duplicate, whose
\* key no earlier row had; no more rows are created than there are such
\* files, and every LineItem it creates belongs to one of these rows.
C6_OnlyAcceptedNonDuplicate ==
  \A p \in Procs :
    Running(p, "processInvoiceData") =>
      LET saveable == { j \in 1..Len(extracted[p]) :
                          /\ extracted[p][j].isInvoice
                          /\ extracted[p][j].confidence > Threshold
                          /\ attachedFiles[p][j] \notin FileNames(duplicateInvoices[p])
                          /\ attachedFiles[p][j] \notin FileNames(nonInvoiceAttachments[p]) }
      IN  /\ Len(Invoice) >= Len(Invoice0[p])
          /\ SubSeq(Invoice, 1, Len(Invoice0[p])) = Invoice0[p]
          /\ Len(LineItem) >= Len(LineItem0[p])
          /\ SubSeq(LineItem, 1, Len(LineItem0[p])) = LineItem0[p]
          /\ Len(Invoice) - Len(Invoice0[p]) <= Cardinality(saveable)
          /\ \A i \in Added(Invoice, Invoice0[p]) :
               /\ \E j \in saveable :
                    /\ Key(extracted[p][j].invoiceData) = Key(Invoice[i])
                    /\ extracted[p][j].invoiceData.customerName = Invoice[i].customerName
               /\ \A k \in 1..(i - 1) : Key(Invoice[k]) # Key(Invoice[i])
          /\ \A i \in Added(LineItem, LineItem0[p]) :
               \E k \in Added(Invoice, Invoice0[p]) : LineItem[i].invoiceId = Invoice[k].id

\* an execution has ended with a rejected file, a file flagged duplicate and
\* a saved file with a line item
C6_Witness ==
  \E p \in Procs :
    /\ Finished(p, "processInvoiceData")
    /\ result[p].success
    /\ Len(nonInvoiceAttachments[p]) = 1
    /\ Len(duplicateInvoices[p]) = 1
    /\ Len(savedInvoices[p]) = 1
    /\ Len(Invoice) = Len(Invoice0[p]) + 1
    /\ Len(LineItem) = Len(LineItem0[p]) + 1

\* C7: every entry of the saved bucket carries the id of a row this execution
\* inserted, and the row's amount, vendorName, invoiceNumber and customerName
\* are those of the extracted data of an accepted file, which the entry repeats.
C7_PersistedAsExtracted ==
  \A p \in Procs :
    Running(p, "processInvoiceData") =>
      \A k \in 1..Len(savedInvoices[p]) :
        LET e == savedInvoices[p][k]
        IN  /\ \E j \in 1..Len(extracted[p]) :
                 /\ extracted[p][j].isInvoice
                 /\ extracted[p][j].confidence > Threshold
                 /\ e = SavedEntry(extracted[p][j].invoiceData, e.id)
            /\ \E i \in Added(Invoice, Invoice0[p]) :
                 /\ Invoice[i].id = e.id
                 /\ Invoice[i].amount = e.amount
                 /\ Invoice[i].vendorName = e.vendorName
                 /\ Invoice[i].invoiceNumber = e.invoiceNumber
                 /\ Invoice[i].customerName = e.customerName
            /\ Cardinality({ i \in 1..Len(Invoice) : Invoice[i].id = e.id }) = 1

\* an execution has saved two invoices whose customer and vendor differ
C7_Witness ==
  \E p \in Procs :
    /\ Finished(p, "processInvoiceData")
    /\ result[p].success
    /\ Len(savedInvoices[p]) = 2
    /\ savedInvoices[p][1].invoiceNumber # savedInvoices[p][2].invoiceNumber
    /\ savedInvoices[p][1].customerName # savedInvoices[p][1].vendorName

SavingInvoice(p) == pc[p] \in {"saveInvoice", "toolSaveInvoice"}

SavingLineItems(p) == pc[p] \in {"saveLineItems", "toolSaveLineItems"}

HasLineItems(table, id) == \E i \in 1..Len(table) : table[i].invoiceId = id

\* C8: when an invoice is saved (processInvoiceData, saveInvoiceData), no
\* LineItem of it exists when its Invoice row is inserted; its LineItems are
\* inserted after the row, each with invoiceId equal to the new invoice id;
\* and when the LineItem insertion throws, the Invoice row stays, without
\* LineItems.
C8_Step(p) ==
  /\ (SavingInvoice(p) /\ Invoice' # Invoice) =>
        /\ Invoice' = Append(Invoice, Invoice'[Len(Invoice')])
        /\ Invoice'[Len(Invoice')].id = invoiceId[p]
        /\ ~HasLineItems(LineItem', invoiceId[p])
  /\ (SavingLineItems(p) /\ LineItem' # LineItem) =>
        /\ invoiceId[p] \in Ids(Invoice)
        /\ Invoice' = Invoice
        /\ Len(LineItem') = Len(LineItem) + Len(invoiceData[p].lineItems)
        /\ SubSeq(LineItem', 1, Len(LineItem)) = LineItem
        /\ \A i \in Added(LineItem', LineItem) : LineItem'[i].invoiceId = invoiceId[p]
  /\ (SavingLineItems(p) /\ pc'[p] = "done" /\ ~result'[p].success) =>
        /\ Invoice' = Invoice
        /\ invoiceId[p] \in Ids(Invoice')
        /\ ~HasLineItems(LineItem', invoiceId[p])

C8_InvoiceThenLineItems == [][\A p \in Procs : C8_Step(p)]_vars

\* a processInvoiceData execution has ended in its catch block after the
\* Invoice row of an invoice with line items was inserted: the row is there,
\* without LineItems
C8_Witness ==
  \E p \in Procs :
    /\ Finished(p, "processInvoiceData")
    /\ ~result[p].success
    /\ Len(lineItems[p]) > 0
    /\ \A i \in 1..Len(lineItems[p]) : lineItems[p][i].invoiceId = invoiceId[p]
    /\ invoiceId[p] \in Ids(Invoice)
    /\ ~HasLineItems(LineItem, invoiceId[p])

\* C9: after deleteInvoiceById(id) has completed, no LineItem with
\* invoiceId = id is stored, and the Invoice rows and LineItems of every
\* other invoice are those of before, in their order.
C9_DeleteCascades ==
  \A p \in Procs :
    (Finished(p, "deleteInvoiceById") /\ result[p].success) =>
      LET OtherInvoice(r) == r.id # body[p].id
          OtherLineItem(r) == r.invoiceId # body[p].id
      IN  /\ ~HasLineItems(LineItem, body[p].id)
          /\ body[p].id \notin Ids(Invoice)
          /\ Invoice = SelectSeq(Invoice0[p], OtherInvoice)
          /\ LineItem = SelectSeq(LineItem0[p], OtherLineItem)

\* an invoice with a line item has been deleted while another invoice with
\* a line item stays
C9_Witness ==
  \E p \in Procs :
    /\ Finished(p, "deleteInvoiceById")
    /\ result[p].success
    /\ HasLineItems(LineItem0[p], body[p].id)
    /\ Len(Invoice) = 1
    /\ Len(LineItem) = 1

\* C10: every stored LineItem's invoiceId is the id of a stored Invoice row.
C10_NoOrphanLineItem ==
  \A i \in 1..Len(LineItem) : LineItem[i].invoiceId \in Ids(Invoice)

\* a PUT whose id matches no invoice and that supplies a line item has
\* ended, with line items of another invoice in the store
C10_Witness ==
  \E p \in Procs :
    /\ Finished(p, "PUT")
    /\ body[p].id \in UnknownIds
    /\ Len(body[p].lineItems.items) > 0
    /\ result[p].status = 500
    /\ LineItem # <<>>

\* the updatable fields of the model and every non-empty choice of them
UpdatableFields == {"customerName", "vendorName", "invoiceNumber", "amount"}

AllPatches ==
  { Patch(h, "Zed", "zed", "INV-9", 7) : h \in (SUBSET UpdatableFields) \ {{}} }

\* row r2 is row r with exactly the fields patch supplies changed
Patched(r, r2, patch) ==
  /\ r2.id = r.id
  /\ r2.createdAt = r.createdAt
  /\ r2.status = r.status
  /\ \A f \in UpdatableFields :
       r2[f] = IF f \in patch.has THEN patch[f] ELSE r[f]

\* table t2 is table t with exactly the supplied fields of invoice id changed
PatchedTable(t, t2, id, patch) ==
  /\ Len(t2) = Len(t)
  /\ \A i \in 1..Len(t) :
       IF t[i].id = id THEN Patched(t[i], t2[i], patch) ELSE t2[i] = t[i]

\* C11: updateInvoice with an id and a non-empty subset of the updatable
\* fields changes exactly the supplied fields of that invoice and leaves its
\* other fields (id, createdAt, status included) and every other invoice as
\* they were; a PUT that returned 200 has changed the Invoice table in that
\* way and in no other.
C11_PartialPatch ==
  /\ \A patch \in AllPatches \cup (PatchSet \ {Patch({}, "", "", "", 0)}) :
       \A id \in Ids(Invoice) \cup UnknownIds :
         /\ updateInvoiceOk(patch)
         /\ PatchedTable(Invoice, updateInvoice(id, patch), id, patch)
  /\ \A p \in Procs :
       (Finished(p, "PUT") /\ result[p].status = 200) =>
         /\ PatchedTable(Invoice0[p], Invoice, body[p].id, body[p].patch)
         /\ ~body[p].lineItems.present => LineItem = LineItem0[p]

\* a PUT that supplied the amount alone has returned 200: the invoice has the
\* new amount and its other fields, and another invoice is in the store
C11_Witness ==
  \E p \in Procs :
    /\ Finished(p, "PUT")
    /\ result[p].status = 200
    /\ body[p].patch.has = {"amount"}
    /\ Len(Invoice) = 2
    /\ \E i \in 1..2 :
         /\ Invoice[i].id = body[p].id
         /\ Invoice[i].amount = 101
         /\ Invoice0[p][i].amount = 100
         /\ Invoice[i].customerName = Invoice0[p][i].customerName
         /\ Invoice[i].createdAt = Invoice0[p][i].createdAt

\* C12: a PUT whose body has no id returns 400 and leaves the Invoice and
\* LineItem tables as they were, whatever fields and lineItems it supplies.
C12_PutWithoutId ==
  \A p \in Procs :
    (Finished(p, "PUT") /\ body[p].id = NoId) =>
      /\ result[p].status = 400
      /\ Invoice = Invoice0[p]
      /\ LineItem = LineItem0[p]

\* a PUT without id that supplied a field and a line item has ended, with
\* an invoice and a line item in the store
C12_Witness ==
  \E p \in Procs :
    /\ Finished(p, "PUT")
    /\ body[p].id = NoId
    /\ body[p].patch.has # {}
    /\ Len(body[p].lineItems.items) > 0
    /\ result[p].status = 400
    /\ Invoice # <<>>
    /\ LineItem # <<>>

\* the line items stored for an invoice, and those stored for the others
StoredFor(table, id) ==
  LET Of(r) == r.invoiceId = id IN SelectSeq(table, Of)

StoredForOthers(table, id) ==
  LET NotOf(r) == r.invoiceId # id IN SelectSeq(table, NotOf)

\* a PUT for an invoice that was stored when the request started, with a
\* lineItems array in its body
PutWithLineItems(p) ==
  /\ Finished(p, "PUT")
  /\ body[p].id \in Ids(Invoice0[p])
  /\ body[p].lineItems.present

\* the line items stored for the invoice are the supplied items, one row per
\* item, an item without id under an id no row had; the line items of the
\* other invoices are those of before
Replaced(p) ==
  LET items == body[p].lineItems.items
      stored == StoredFor(LineItem, body[p].id)
  IN  /\ Len(stored) = Len(items)
      /\ \A i \in 1..Len(items) :
           /\ stored[i].amount = items[i].amount
           /\ IF items[i].id # NoId
              THEN stored[i].id = items[i].id
              ELSE stored[i].id \notin Ids(LineItem0[p])
      /\ StoredForOthers(LineItem, body[p].id) =
           StoredForOthers(LineItem0[p], body[p].id)

\* the replacement of the line items by every PUT that returned 200
C13_Replaces ==
  \A p \in Procs :
    (PutWithLineItems(p) /\ result[p].status = 200) => Replaced(p)

\* C13: a PUT that supplies lineItems for an existing invoice and returns 200
\* has replaced the invoice's line items by the supplied ones (an empty array
\* leaves none), and a body with only id and lineItems is served in the same
\* way: unless the database fails or an insert violates a constraint, it
\* returns 200.
C13_LineItemsReplaced ==
  /\ C13_Replaces
  /\ \A p \in Procs :
       (PutWithLineItems(p) /\ body[p].patch.has = {}) =>
          \/ result[p].status = 200
          \/ result[p].status = 500 /\ result[p].logged \in {Unavailable, Constraint}

\* C14: GET /invoices answers 200 with every persisted invoice, however
\* many there are, or 500 with the generic error body when the query throws.
C14_GetReturnsAll ==
  \A p \in Procs :
    Finished(p, "GET") =>
      \/ /\ result[p].status = 200
         /\ Len(result[p].invoices) = Len(Invoice)
         /\ Range(result[p].invoices) = Range(Invoice)
      \/ /\ result[p].status = 500
         /\ result[p].invoices = <<>>

\* the execution returned from the try block: nothing was thrown
ReturnedNormally(p) ==
  /\ Finished(p, "processInvoiceData")
  /\ result[p] # Uncaught
  /\ result[p].error # "Database error"

\* C15: an execution of processInvoiceData over at least one attached file
\* that ends without a thrown error reports three counts (saved, duplicate,
\* rejected as non-invoice) that sum to the number of attached files, also
\* when no file was accepted.
C15_CountsCoverFiles ==
  \A p \in Procs :
    ReturnedNormally(p) /\ Len(attachedFiles[p]) > 0 =>
      /\ "savedCount" \in DOMAIN result[p]
      /\ result[p].savedCount + result[p].duplicateCount + result[p].nonInvoiceCount
           = Len(attachedFiles[p])

\* the event types that announce the start and the completion of a batch
StartEvents == {"processingStart", "savingStart"}

CompletionEvents == {"savingComplete", "invoiceTable"}

\* C16: an execution of processInvoiceData over at least one attached file
\* has written a start event before its first extraction call, ends a normal
\* return with a completion event, and writes no event per file (at most the
\* start and the completion event).
C16_StartAndCompletionEvents ==
  \A p \in Procs :
    Running(p, "processInvoiceData") /\ Len(attachedFiles[p]) > 0 =>
      /\ Len(dataStream[p]) > 0
      /\ dataStream[p][1] \in StartEvents
      /\ ReturnedNormally(p) =>
           dataStream[p][Len(dataStream[p])] \in CompletionEvents
      /\ Len(dataStream[p]) <= 2

LineItemNumberChanged ==
  \E index \in 1..MaxItems, field \in RecomputeFields, value \in NumberInputs :
    handleLineItemChange(index, field, value)

RECURSIVE SumOver(_, _)
SumOver(S, f) ==
  IF S = {} THEN 0
  ELSE LET k == CHOOSE k \in S : TRUE IN f[k] + SumOver(S \ {k}, f)

\* the sum of the amounts as numbers: not a number when one of them is not
SumOfAmounts(items) ==
  IF \E k \in 1..Len(items) : items[k].amount = NaN THEN NaN
  ELSE SumOver(1..Len(items), [k \in 1..Len(items) |-> items[k].amount])

\* the sum of the amounts that are numbers
SumOfNumericAmounts(items) ==
  SumOver({ k \in 1..Len(items) : items[k].amount # NaN },
          [k \in 1..Len(items) |-> items[k].amount])

\* equality of numbers: NaN equals nothing
SameNumber(a, b) == a # NaN /\ b # NaN /\ a = b

\* C18 (as stated): after a handleLineItemChange that sets the amount,
\* quantity or unit price of a draft line item, the draft's amount equals
\* the sum of the amounts of all draft line items.
C18_AmountIsSum ==
  [][LineItemNumberChanged =>
       SameNumber(editData'.amount, SumOfAmounts(editData'.lineItems))]_vars

\* C18 (amended): after a handleLineItemChange that sets the amount,
\* quantity or unit price of a draft line item, the draft's amount equals
\* the sum of the draft line items' amounts in which an amount that is not
\* a number counts as 0.
C18_AmountIsSumOfNumbers ==
  [][LineItemNumberChanged =>
       SameNumber(editData'.amount, SumOfNumericAmounts(editData'.lineItems))]_vars

\* a draft of two line items, the first with its amount input emptied and
\* the second changed to 2, whose amount is 2
C18_Witness ==
  /\ editingId = 1
  /\ Len(editData.lineItems) = 2
  /\ editData.lineItems[1].amount = NaN
  /\ editData.lineItems[2].amount = 2
  /\ editData.amount = 2

\* an edit of the draft: a field change, a line-item change, a line-item
\* add or a line-item remove
DraftEdited ==
  \/ \E value \in TextInputs : handleInputChange("vendorName", value)
  \/ \E value \in NumberInputs : handleInputChange("amount", value)
  \/ \E index \in 1..MaxItems, value \in TextInputs :
       handleLineItemChange(index, "description", value)
  \/ LineItemNumberChanged
  \/ addLineItem
  \/ \E index \in 1..MaxItems : removeLineItem(index)

\* C19: an edit of the draft leaves the invoices of the table as they are;
\* Cancel sets the row in edit mode to none and the draft to empty, and
\* leaves the table with the invoices it had when editing started.
C19_DraftIsLocal ==
  [][/\ DraftEdited => invoices' = invoices
     /\ cancelEditing => /\ editingId' = NoId
                         /\ editData' = <<>>
                         /\ invoices' = invoices
                         /\ invoices' = invoicesAtEdit]_vars

\* the first row is in edit mode with an edited vendor name, a recomputed
\* amount and an added line item, and the table still shows what the
\* component was given
C19_Witness ==
  /\ editingId = 1
  /\ editData.vendorName = "Zed"
  /\ editData.amount = 2
  /\ Len(editData.lineItems) = 2
  /\ invoices = InitialInvoices

\* a PUT that returned 200 for a stored invoice, with at least one invoice
\* field and a lineItems array in its body
PutOfFieldsAndLineItems(p, id) ==
  /\ Finished(p, "PUT")
  /\ result[p].status = 200
  /\ body[p].id = id
  /\ body[p].patch.has # {}
  /\ body[p].lineItems.present

\* the stored state of the invoice is what the request of p supplied: its
\* fields in the row, and its line items and no others in table LineItem
Wins(p, id) ==
  LET row == Invoice[CHOOSE i \in 1..Len(Invoice) : Invoice[i].id = id]
      items == body[p].lineItems.items
      stored == StoredFor(LineItem, id)
  IN  /\ \A f \in body[p].patch.has : row[f] = body[p].patch[f]
      /\ Len(stored) = Len(items)
      /\ \A i \in 1..Len(items) :
           /\ stored[i].amount = items[i].amount
           /\ items[i].id # NoId => stored[i].id = items[i].id

\* C20: when two PUTs for the same invoice, each with fields and a lineItems
\* array, have both returned 200, the stored fields and line items of the
\* invoice are those one of the two requests supplied.
C20_LastWriteWins ==
  \A p, q \in Procs, id \in Ids(Invoice) :
    (p # q /\ PutOfFieldsAndLineItems(p, id) /\ PutOfFieldsAndLineItems(q, id))
      => Wins(p, id) \/ Wins(q, id)

\* a storage call of the save loop threw: the execution ended with an
\* accepted attachment that was neither saved nor found to be a duplicate
StorageFailed(p) ==
  /\ Finished(p, "processInvoiceData")
  /\ Len(attachedFiles[p]) > 0
  /\ Len(extracted[p]) = Len(attachedFiles[p])
  /\ Handled(p) < Len(invoiceAttachments[p])

SavedIds(p) == { savedInvoices[p][k].id : k \in 1..Len(savedInvoices[p]) }

\* C21: when a storage call fails while processInvoiceData persists a batch,
\* the execution does not throw but returns the 'Database error' failure,
\* has written exactly one event, 'error', has made no save after the
\* failing one, and the invoices it had persisted are in the store.
C21_StorageFailureReported ==
  \A p \in Procs :
    StorageFailed(p) =>
      /\ result[p] = Failure("Database error")
      /\ dataStream[p] = <<"error">>
      /\ SavedIds(p) \subseteq Ids(Invoice)
      /\ Ids(Invoice) \ Ids(Invoice0[p]) \subseteq SavedIds(p) \cup {invoiceId[p]}

\* a batch whose first accepted invoice was saved and whose second one
\* failed in storage after its Invoice row was written
C21_Witness ==
  /\ StorageFailed("p1")
  /\ Len(savedInvoices["p1"]) = 1
  /\ invoiceId["p1"] \in Ids(Invoice) \ SavedIds("p1")
  /\ result["p1"] = Failure("Database error")

\* the position of the most recent user message, 0 when there is none
LatestUser(msgs) ==
  IF \E i \in 1..Len(msgs) : msgs[i].role = "user"
  THEN CHOOSE i \in 1..Len(msgs) :
         /\ msgs[i].role = "user"
         /\ \A j \in (i + 1)..Len(msgs) : msgs[j].role # "user"
  ELSE 0

\* the names of the file parts of the messages before the most recent user
\* message
EarlierFiles(msgs) ==
  UNION { Range(fileNames(msgs[i].parts)) : i \in 1..(LatestUser(msgs) - 1) }

\* the names of the file parts of the most recent user message, in order
LatestFiles(msgs) ==
  IF LatestUser(msgs) = 0 THEN <<>> ELSE fileNames(msgs[LatestUser(msgs)].parts)

\* the files that went through an extraction call that returned
Extracted(p) ==
  FileNames(invoiceAttachments[p]) \cup FileNames(nonInvoiceAttachments[p])

\* C22: processInvoiceData makes its extraction calls for the file parts of
\* the most recent user message, one after the other in their order, and for
\* no file part of an earlier message; when the most recent user message has
\* no file part it returns the 'No valid files found' failure and has made
\* no extraction call, storage write or event write.
C22_LatestMessageOnly ==
  \A p \in Procs :
    Running(p, "processInvoiceData") =>
      LET files == LatestFiles(messages[p])
      IN  /\ Extracted(p) \cap EarlierFiles(messages[p]) = {}
          /\ Len(extracted[p]) <= Len(files)
          /\ Extracted(p) = { files[k] : k \in 1..Len(extracted[p]) }
          /\ Len(files) = 0 =>
               /\ Finished(p, "processInvoiceData")
               /\ result[p] = Failure("No valid files found")
               /\ dataStream[p] = <<>>
               /\ Invoice = Invoice0[p]
               /\ LineItem = LineItem0[p]

\* two files of the latest message were extracted and one was saved, in a
\* conversation with a file attached to an earlier message
C22_Witness ==
  /\ Finished("p1", "processInvoiceData")
  /\ EarlierFiles(messages["p1"]) # {}
  /\ Len(extracted["p1"]) = 2
  /\ Len(savedInvoices["p1"]) = 1

\* C23: however two executions of processInvoiceData interleave, no two
\* rows of table Invoice have the same (vendorName, invoiceNumber, amount).
C23_NoDuplicateRows ==
  \A i, j \in 1..Len(Invoice) :
    Key(Invoice[i]) = Key(Invoice[j]) => i = j

\* C24: while an extraction call of an execution of processInvoiceData is
\* outstanding or has thrown, the execution has made no duplicate check and
\* no storage write: the tables are as they were when it started.
C24_ExtractBeforeStorage ==
  \A p \in Procs :
    (Running(p, "processInvoiceData") /\ Len(extracted[p]) < Len(attachedFiles[p])) =>
      /\ pc[p] \in {"extract", "done"}
      /\ savedInvoices[p] = <<>>
      /\ duplicateInvoices[p] = <<>>
      /\ invoiceId[p] = NoId
      /\ Invoice = Invoice0[p]
      /\ LineItem = LineItem0[p]

\* the extraction call for the second of two files threw after the first
\* file was accepted, and nothing was persisted
C24_Witness ==
  /\ Finished("p1", "processInvoiceData")
  /\ Len(attachedFiles["p1"]) = 2
  /\ Len(extracted["p1"]) = 1
  /\ Len(invoiceAttachments["p1"]) = 1
  /\ result["p1"] = Failure("Database error")
  /\ Invoice = Invoice0["p1"]

\* a PUT for a stored invoice whose saveLineItems threw after updateInvoice
\* and deleteLineItemsByInvoiceId had returned
PutInsertFailed(p) ==
  /\ Finished(p, "PUT")
  /\ body[p].id \in Ids(Invoice0[p])
  /\ lineItems[p] # <<>>
  /\ StoredFor(LineItem, body[p].id) # lineItems[p]

\* C25: when the insert of the line items of a PUT fails after the update
\* and the deletion succeeded, the response is 500, the supplied fields are
\* in the invoice's row and the invoice has no line item left.
C25_InsertFailureNotRestored ==
  \A p \in Procs :
    PutInsertFailed(p) =>
      LET row == Invoice[CHOOSE i \in 1..Len(Invoice) : Invoice[i].id = body[p].id]
      IN  /\ result[p].status = 500
          /\ \A f \in body[p].patch.has : row[f] = body[p].patch[f]
          /\ StoredFor(LineItem, body[p].id) = <<>>

\* the insert failed for an invoice that had a line item, with a field
\* supplied
C25_Witness ==
  /\ PutInsertFailed("p1")
  /\ StoredFor(LineItem0["p1"], body["p1"].id) # <<>>
  /\ "amount" \in body["p1"].patch.has
  /\ result["p1"].status = 500

\* the execution of p returned its summary
Summarised(p) ==
  /\ Finished(p, "processInvoiceData")
  /\ "savedCount" \in DOMAIN result[p]

\* q executed processInvoiceData on the messages p had executed it on, with
\* the same extraction results, after p had saved every invoice it accepted
Rerun(p, q) ==
  /\ Summarised(p)
  /\ Len(savedInvoices[p]) = Len(invoiceAttachments[p])
  /\ Summarised(q)
  /\ messages[q] = messages[p]
  /\ extracted[q] = extracted[p]

\* C26: an execution of processInvoiceData on the same latest message and
\* with the same extraction results as an earlier execution that saved all
\* its accepted invoices adds no row to either table and reports each of
\* those invoices as a duplicate of the row saved for it.
C26_RerunIsAllDuplicates ==
  Rerun("p1", "p2") =>
    /\ Invoice = Invoice0["p2"]
    /\ LineItem = LineItem0["p2"]
    /\ savedInvoices["p2"] = <<>>
    /\ Len(duplicateInvoices["p2"]) = Len(savedInvoices["p1"])
    /\ \A k \in 1..Len(savedInvoices["p1"]) :
         duplicateInvoices["p2"][k].existingInvoice.id = savedInvoices["p1"][k].id

\* an execution that saved its one accepted invoice and its line item was
\* followed by an execution on the same message
C26_Witness ==
  /\ Rerun("p1", "p2")
  /\ Len(savedInvoices["p1"]) = 1
  /\ Len(LineItem) = 1

\* the execution of p wrote the Invoice row of an accepted invoice and
\* failed when it inserted the line items of that invoice
LineItemsFailed(p) ==
  /\ StorageFailed(p)
  /\ invoiceId[p] \in Ids(Invoice) \ SavedIds(p)
  /\ Len(invoiceData[p].lineItems) > 0

\* C27: once an execution of processInvoiceData has left an Invoice row
\* without its line items, the invoice has no line item in any later state,
\* and a later execution on the same extracted data puts it into the
\* duplicate bucket with that row as the existing invoice.
C27_OrphanStaysWithoutItems ==
  LineItemsFailed("p1") =>
    /\ StoredFor(LineItem, invoiceId["p1"]) = <<>>
    /\ (/\ Running("p2", "processInvoiceData")
        /\ extracted["p2"] = extracted["p1"]
        /\ Handled("p2") >= idx["p1"])
       => /\ Len(duplicateInvoices["p2"]) >= idx["p1"]
          /\ duplicateInvoices["p2"][idx["p1"]].existingInvoice.id = invoiceId["p1"]

\* the first execution left a row without line items and the second one,
\* on the same data, has returned its summary
C27_Witness ==
  /\ LineItemsFailed("p1")
  /\ Summarised("p2")
  /\ extracted["p2"] = extracted["p1"]
  /\ Len(duplicateInvoices["p2"]) = 1

\* a PUT whose id is that of no stored invoice, with at least one invoice
\* field and no lineItems in its body
PutForUnknownId(p) ==
  /\ Finished(p, "PUT")
  /\ body[p].id # NoId
  /\ body[p].id \notin Ids(Invoice0[p])
  /\ body[p].patch.has # {}
  /\ ~body[p].lineItems.present

\* C28: a PUT for an id that no stored invoice has, with at least one
\* invoice field and no lineItems, leaves both tables as they were and,
\* unless the database fails, answers 200 without an invoice.
C28_UnknownIdAnswers200 ==
  \A p \in Procs :
    PutForUnknownId(p) =>
      /\ Invoice = Invoice0[p]
      /\ LineItem = LineItem0[p]
      /\ \/ result[p].status = 200 /\ result[p].invoice = Undefined
         \/ result[p].status = 500 /\ result[p].logged = Unavailable

\* such a PUT was answered 200 while an invoice is stored
C28_Witness ==
  /\ PutForUnknownId("p1")
  /\ "amount" \in body["p1"].patch.has
  /\ result["p1"].status = 200
  /\ Len(Invoice) = 1

\* the Invoice row of a saveInvoiceData execution and all the line items of
\* its invoice data are stored
FullyPersisted(p) ==
  /\ invoiceId[p] \in Ids(Invoice)
  /\ Len(StoredFor(LineItem, invoiceId[p])) = Len(invoiceData[p].lineItems)

TerminalEvents == {"savingComplete", "error"}

\* C29: with the client connected, a saveInvoiceData execution has written
\* 'savingStart' while the tables are still as it found them; until it returns
\* that is its only event; when it has returned it has written exactly one
\* more event, 'savingComplete' or 'error', 'savingComplete' exactly when the
\* Invoice row and all its line items are stored, and its result reports
\* success exactly when that event is 'savingComplete'.
C29_SavingEvents ==
  \A p \in Procs :
    Running(p, "saveInvoiceData") =>
      /\ Len(dataStream[p]) >= 1
      /\ dataStream[p][1] = "savingStart"
      /\ pc[p] = "toolSaveInvoice" =>
           Invoice = Invoice0[p] /\ LineItem = LineItem0[p]
      /\ pc[p] # "done" => dataStream[p] = <<"savingStart">>
      /\ pc[p] = "done" =>
           /\ Len(dataStream[p]) = 2
           /\ dataStream[p][2] \in TerminalEvents
           /\ dataStream[p][2] = "savingComplete" <=> FullyPersisted(p)
           /\ result[p].success <=> dataStream[p][2] = "savingComplete"

\* saveInvoiceData stored the Invoice row, the insert of its line item
\* failed, and the execution ended with 'error' and without success
C29_Witness ==
  /\ Finished("p1", "saveInvoiceData")
  /\ invoiceId["p1"] \in Ids(Invoice)
  /\ Len(invoiceData["p1"].lineItems) = 1
  /\ StoredFor(LineItem, invoiceId["p1"]) = <<>>
  /\ dataStream["p1"] = <<"savingStart", "error">>
  /\ ~result["p1"].success

\* a step in which the update request of a Save ends without an OK response
SaveFailed ==
  saving # Null /\ saving' = Null /\ response' \in {"notOk", "threw"}

=============================================================================
